---- MODULE Spec2Model ----
(***************************************************************************)
(* Model of the ride-chat widget of src/components/ChatPanel.tsx:          *)
(*   ChatPanel  - polls /api/rides/inprogress, keeps rides, selectedRideId *)
(*                and isOpen, renders the toggle button, the ride tabs and *)
(*                the ChatBox;                                             *)
(*   ChatBox    - subscribes to the "messages" collection and keeps the    *)
(*                window of messages it was last delivered.                *)
(* A ride is modelled by its id (pickupLocation and dropoffLocation are    *)
(* only displayed).  A message document is modelled by its createdAt and   *)
(* by the ride it was written for.                                         *)
(***************************************************************************)
EXTENDS Integers, Sequences, FiniteSets

VARIABLES
    mounted,         \* ChatPanel is mounted
    session,         \* useSession().data: NoSession or a session id
    timers,          \* live setInterval timers, each the session its closure captured
    inflight,        \* fetchRides calls awaiting their response
    orphans,         \* those of them whose polling effect has been cleaned up since
    dead,            \* those of them whose component has been unmounted since
    rides,           \* useState<Ride[]>: the sequence of ride ids
    selectedRideId,  \* useState<number | null>
    isOpen,          \* useState(false)
    subscriptions,   \* live onSnapshot listeners of ChatBox
    messages,        \* ChatBox useState<MessageData[]>: the window
    store,           \* the "messages" collection, in order of arrival
    event            \* the handler that ran last (and its outcome)

vars == <<mounted, session, timers, inflight, orphans, dead, rides,
          selectedRideId, isOpen, subscriptions, messages, store, event>>

(***************************************************************************)
(* Bounds of the model.                                                    *)
(***************************************************************************)
MaxRideId == 2        \* ride ids are 1..MaxRideId
MaxSessionId == 1     \* session ids are 1..MaxSessionId
MaxInflight == 2      \* fetches in flight at once
MaxMsgs == 1          \* documents in the collection, whole-widget specification
MaxStreamMsgs == 11   \* documents in the collection, ChatBox specification
ClockLag == 2         \* a sender's clock is in step or ClockLag behind

(***************************************************************************)
(* Program constants.                                                      *)
(***************************************************************************)
NoSession == 0        \* session is null
NoRide == 0           \* selectedRideId is null
WindowLimit == 10     \* limit(10)

RideIds == 1..MaxRideId
Sessions == 1..MaxSessionId

Ids(s) == {s[i] : i \in DOMAIN s}

\* The bodies /api/rides/inprogress can answer with: ride ids, each at most once.
RideSets ==
    {s \in UNION {[1..n -> RideIds] : n \in 0..MaxRideId} :
        \A i, j \in DOMAIN s : i # j => s[i] # s[j]}

isLoggedIn == session # NoSession

(***************************************************************************)
(* ChatBox: the query and the subscription.                                *)
(***************************************************************************)
\* d put into the createdAt-sorted s, after the documents not newer than it.
Insert(d, s) ==
    LET k == Cardinality({i \in DOMAIN s : s[i].createdAt <= d.createdAt})
    IN  SubSeq(s, 1, k) \o <<d>> \o SubSeq(s, k + 1, Len(s))

RECURSIVE orderBy(_)
\* orderBy("createdAt"): ascending, documents of equal createdAt in order of arrival.
orderBy(docs) ==
    IF docs = <<>> THEN <<>>
    ELSE Insert(docs[Len(docs)], orderBy(SubSeq(docs, 1, Len(docs) - 1)))

\* limit(n): the first n documents of the ordered result.
limit(docs, n) == SubSeq(docs, 1, IF Len(docs) < n THEN Len(docs) ELSE n)

\* Query with orderBy("createdAt") left out: the documents as they arrived.
QueryUnordered(docs) == limit(docs, WindowLimit)

\* query(collection(db, "messages"), orderBy("createdAt"), limit(10)):
\* the rideId ChatPanel passes is not part of the query.
Query(docs) == limit(orderBy(docs), WindowLimit)

\* onSnapshot(q, callback): one more live listener.
subscribe(n) == n + 1

\* unsubscribe with the effect's cleanup left out: the listener stays live.
unsubscribeLeak(n) == n

\* unsubscribe(), the effect's cleanup.
unsubscribe(n) == n - 1

\* ChatBoxRendered with ChatBox placed outside the {isOpen && (...)} block: it stays
\* mounted while the widget is closed.
ChatBoxRenderedWhileClosed(mnt, open, sel) == mnt /\ sel # NoRide

\* {selectedRideId && <ChatBox .../>} inside {isOpen && (...)}.
ChatBoxRendered(mnt, open, sel) == mnt /\ open /\ sel # NoRide

\* ChatBox's mount and unmount as ChatPanel's render changes from was to is:
\* the effect of ChatBox has no dependencies, so it runs on mount only.
ChatBoxLifecycle(was, is) ==
    IF ~was /\ is
    THEN /\ subscriptions' = subscribe(subscriptions)
         /\ messages' = <<>>
    ELSE IF was /\ ~is
    THEN /\ subscriptions' = unsubscribe(subscriptions)
         /\ messages' = <<>>
    ELSE UNCHANGED <<subscriptions, messages>>

Rendered == ChatBoxRendered(mounted, isOpen, selectedRideId)

(***************************************************************************)
(* ChatPanel.                                                              *)
(***************************************************************************)
Init ==
    /\ mounted = FALSE
    /\ session = NoSession
    /\ timers = {}
    /\ inflight = 0
    /\ orphans = 0
    /\ dead = 0
    /\ rides = <<>>
    /\ selectedRideId = NoRide
    /\ isOpen = FALSE
    /\ subscriptions = 0
    /\ messages = <<>>
    /\ store = <<>>
    /\ event = "init"

\* fetchRides with the if (session) check left out.
fetchRidesWithoutSessionCheck(s, n) == n + 1

\* fetchRides(): a request is sent only if the captured session is not null.
fetchRides(s, n) == IF s # NoSession THEN n + 1 ELSE n

\* clearInterval(intervalId), the polling effect's cleanup: the effect's one timer.
ClearInterval(ts) == {}

\* PollingEffect with the initial fetchRides() left out: the first fetch waits for
\* the first tick.
PollingEffectWithoutInitialFetch(s) ==
    /\ fetchRides(s, inflight) <= MaxInflight
    /\ inflight' = inflight
    /\ timers' = ClearInterval(timers) \cup {s}

\* PollingEffect with the cleanup left out: the timer of the previous run lives on.
PollingEffectWithoutCleanup(s) ==
    /\ fetchRides(s, inflight) <= MaxInflight
    /\ inflight' = fetchRides(s, inflight)
    /\ timers' = timers \cup {s}

\* The polling effect run for session s: the cleanup of the previous run (if any),
\* then the initial fetchRides() and setInterval.
PollingEffect(s) ==
    /\ fetchRides(s, inflight) <= MaxInflight
    /\ inflight' = fetchRides(s, inflight)
    /\ timers' = ClearInterval(timers) \cup {s}

\* ChatPanel is mounted: initial state, then the polling effect.
Mount ==
    /\ ~mounted
    /\ mounted' = TRUE
    /\ PollingEffect(session)
    /\ rides' = <<>>
    /\ selectedRideId' = NoRide
    /\ isOpen' = FALSE
    /\ event' = "mount"
    /\ UNCHANGED <<session, orphans, dead, subscriptions, messages, store>>

\* ChatPanel is unmounted: clearInterval, ChatBox (if rendered) unsubscribes, the
\* state is dropped.  A fetch in flight stays in flight: its continuation holds
\* the setters of the component that is gone.
Unmount ==
    /\ mounted
    /\ mounted' = FALSE
    /\ timers' = ClearInterval(timers)
    /\ orphans' = 0
    /\ dead' = inflight
    /\ rides' = <<>>
    /\ selectedRideId' = NoRide
    /\ isOpen' = FALSE
    /\ ChatBoxLifecycle(Rendered, FALSE)
    /\ event' = "unmount"
    /\ UNCHANGED <<session, inflight, store>>

\* useSession() yields another value: the effect's cleanup, then the effect again.
SessionChange(s) ==
    /\ s # session
    /\ session' = s
    /\ IF mounted
       THEN PollingEffect(s) /\ orphans' = inflight - dead
       ELSE UNCHANGED <<timers, inflight, orphans>>
    /\ event' = "session"
    /\ UNCHANGED <<mounted, dead, rides, selectedRideId, isOpen,
                   subscriptions, messages, store>>

\* A tick of a live interval timer: fetchRides() with the captured session.
TimerTick ==
    /\ \E s \in timers :
        /\ s # NoSession
        /\ inflight < MaxInflight
        /\ inflight' = fetchRides(s, inflight)
    /\ event' = "tick"
    /\ UNCHANGED <<mounted, session, timers, orphans, dead, rides,
                   selectedRideId, isOpen, subscriptions, messages, store>>

\* setSelectedRideId(data[0].id) if data.length > 0.
SelectedAfterFetch(data, sel) == IF Len(data) > 0 THEN data[1] ELSE sel

\* The fetches in flight by what has become of their issuer: "live" (its polling
\* effect is the current one), "orphan" (its effect has been cleaned up, its
\* component is mounted), "dead" (its component has been unmounted).
Issuers == {"live", "orphan", "dead"}

InFlightOf(who) ==
    CASE who = "live" -> inflight - orphans - dead
      [] who = "orphan" -> orphans
      [] who = "dead" -> dead

\* The response of a fetch of issuer who arrives.
Settle(who) ==
    /\ InFlightOf(who) > 0
    /\ inflight' = inflight - 1
    /\ orphans' = IF who = "orphan" THEN orphans - 1 ELSE orphans
    /\ dead' = IF who = "dead" THEN dead - 1 ELSE dead

\* RidesAfterFetch with the new rides appended to the old ones.
RidesMerged(data, old) ==
    old \o SelectSeq(data, LAMBDA id : id \notin Ids(old))

\* setRides(data): the new list replaces the old one.
RidesAfterFetch(data, old) == data

\* The response is ok and its body parses to data: setRides, setSelectedRideId.
\* The setters of an unmounted component do nothing.
FetchResolve(data, who) ==
    /\ Settle(who)
    /\ IF who # "dead"
       THEN /\ rides' = RidesAfterFetch(data, rides)
            /\ selectedRideId' = SelectedAfterFetch(data, selectedRideId)
            /\ ChatBoxLifecycle(Rendered,
                   ChatBoxRendered(mounted, isOpen,
                                   SelectedAfterFetch(data, selectedRideId)))
       ELSE UNCHANGED <<rides, selectedRideId, subscriptions, messages>>
    /\ event' = "fetch_ok"
    /\ UNCHANGED <<mounted, session, timers, isOpen, store>>

FailureKinds == {"fetch_network_error", "fetch_http_error", "fetch_parse_error"}

\* RidesAfterFailure with the response.ok check left out: the body of an error
\* response is taken for the ride list.
RidesFromErrorBody(kind, old) == IF kind = "fetch_http_error" THEN <<>> ELSE old

\* What the catch block leaves of rides: it only logs.
RidesAfterFailure(kind, old) == old

\* FetchReject with a catch block that gives up polling: it clears the timer.
FetchRejectStoppingPoll(kind, who) ==
    /\ Settle(who)
    /\ rides' = rides
    /\ timers' = {}
    /\ event' = kind
    /\ UNCHANGED <<mounted, session, selectedRideId, isOpen, subscriptions,
                   messages, store>>

\* fetch() rejects, response.ok is false, or JSON.parse throws: the catch block.
FetchReject(kind, who) ==
    /\ Settle(who)
    /\ rides' = IF who # "dead" THEN RidesAfterFailure(kind, rides) ELSE rides
    /\ event' = kind
    /\ UNCHANGED <<mounted, session, timers, selectedRideId, isOpen,
                   subscriptions, messages, store>>

\* toggleChat that also stops the polling timer when it closes the widget.
toggleChatStoppingPoll ==
    /\ isOpen' = ~isOpen
    /\ ChatBoxLifecycle(Rendered, ChatBoxRendered(mounted, ~isOpen, selectedRideId))
    /\ timers' = IF isOpen THEN {} ELSE timers
    /\ event' = "toggle"
    /\ UNCHANGED <<mounted, session, inflight, orphans, dead, rides,
                   selectedRideId, store>>

\* toggleChat: setIsOpen(!isOpen).
toggleChat ==
    /\ isOpen' = ~isOpen
    /\ ChatBoxLifecycle(Rendered, ChatBoxRendered(mounted, ~isOpen, selectedRideId))
    /\ event' = "toggle"
    /\ UNCHANGED <<mounted, session, timers, inflight, orphans, dead,
                   rides, selectedRideId, store>>

\* ChatButtonRendered with the rides.length > 0 condition left out.
ChatButtonWithoutRides == mounted /\ isLoggedIn

\* {isLoggedIn && rides.length > 0 && <button onClick={toggleChat}>}.
ChatButtonRendered == mounted /\ isLoggedIn /\ Len(rides) > 0

ClickChatButton == ChatButtonRendered /\ toggleChat

\* The close button inside {isOpen && (...)}.
ClickCloseButton == mounted /\ isOpen /\ toggleChat

\* RideTabs with a tab for every ride id, not only those of rides.
RideTabsOfAllRides == IF mounted /\ isOpen THEN RideIds ELSE {}

\* rides.map((ride) => <button .../>) inside {isOpen && (...)}: the tabs shown.
RideTabs == IF mounted /\ isOpen THEN Ids(rides) ELSE {}

\* onClick={() => setSelectedRideId(ride.id)}.
ClickRideTab(id) ==
    /\ id \in RideTabs
    /\ selectedRideId' = id
    /\ ChatBoxLifecycle(Rendered, ChatBoxRendered(mounted, isOpen, id))
    /\ event' = "select"
    /\ UNCHANGED <<mounted, session, timers, inflight, orphans, dead,
                   rides, isOpen, store>>

(***************************************************************************)
(* The "messages" collection and the listener's callback.                  *)
(***************************************************************************)
\* A document written for ride r, stamped by a clock that is lag behind.
AddMessage(r, lag, bound) ==
    /\ Len(store) < bound
    /\ store' = Append(store, [ride |-> r, createdAt |-> Len(store) + 1 - lag])
    /\ event' = "message"
    /\ UNCHANGED <<mounted, session, timers, inflight, orphans, dead,
                   rides, selectedRideId, isOpen, subscriptions, messages>>

\* SendMessage with an optimistic insert of the sent message into the window.
SendMessageOptimistic(ok) ==
    /\ Rendered
    /\ ok => Len(store) < MaxMsgs
    /\ store' = IF ok
                THEN Append(store, [ride |-> selectedRideId,
                                    createdAt |-> Len(store) + 1])
                ELSE store
    /\ messages' = Append(messages, [ride |-> selectedRideId,
                                      createdAt |-> Len(store) + 1])
    /\ event' = IF ok THEN "send" ELSE "send_failed"
    /\ UNCHANGED <<mounted, session, timers, inflight, orphans, dead, rides,
                   selectedRideId, isOpen, subscriptions>>

\* {selectedRideId && <SendMessage rideId={selectedRideId} />}: the actor sends a
\* message for the selected ride; the write succeeds (ok) or fails.
SendMessage(ok) ==
    /\ Rendered
    /\ ok => Len(store) < MaxMsgs
    /\ store' = IF ok
                THEN Append(store, [ride |-> selectedRideId,
                                    createdAt |-> Len(store) + 1])
                ELSE store
    /\ event' = IF ok THEN "send" ELSE "send_failed"
    /\ UNCHANGED <<mounted, session, timers, inflight, orphans, dead, rides,
                   selectedRideId, isOpen, subscriptions, messages>>

\* The onSnapshot callback: setMessages(the documents of the query's result).
Snapshot ==
    /\ subscriptions > 0
    /\ Rendered
    /\ messages' = Query(store)
    /\ event' = "snapshot"
    /\ UNCHANGED <<mounted, session, timers, inflight, orphans, dead,
                   rides, selectedRideId, isOpen, subscriptions, store>>

Next ==
    \/ Mount
    \/ Unmount
    \/ \E s \in Sessions \cup {NoSession} : SessionChange(s)
    \/ TimerTick
    \/ \E data \in RideSets, who \in Issuers : FetchResolve(data, who)
    \/ \E kind \in FailureKinds, who \in Issuers : FetchReject(kind, who)
    \/ ClickChatButton
    \/ ClickCloseButton
    \/ \E id \in RideIds : ClickRideTab(id)
    \/ \E r \in RideIds : AddMessage(r, 0, MaxMsgs)
    \/ \E ok \in BOOLEAN : SendMessage(ok)
    \/ Snapshot

Spec == Init /\ [][Next]_vars

(***************************************************************************)
(* The polling of ChatPanel on its own, with the timer's ticks fair: a     *)
(* live setInterval timer keeps firing.                                    *)
(***************************************************************************)
NextPolling ==
    \/ Mount
    \/ Unmount
    \/ \E s \in Sessions \cup {NoSession} : SessionChange(s)
    \/ TimerTick
    \/ \E data \in RideSets, who \in Issuers : FetchResolve(data, who)
    \/ \E kind \in FailureKinds, who \in Issuers : FetchReject(kind, who)

SpecPolling == Init /\ [][NextPolling]_vars

FairPolling == SpecPolling /\ WF_vars(TimerTick)

(***************************************************************************)
(* The ChatBox on its own: the panel is open on ride 1 and the collection  *)
(* grows past the window's limit.                                          *)
(***************************************************************************)
InitChatBox ==
    /\ mounted = TRUE
    /\ session \in Sessions
    /\ timers = {session}
    /\ inflight = 0
    /\ orphans = 0
    /\ dead = 0
    /\ rides = <<1>>
    /\ selectedRideId = 1
    /\ isOpen = TRUE
    /\ subscriptions = 1
    /\ messages = <<>>
    /\ store = <<>>
    /\ event = "toggle"

NextChatBox ==
    \/ \E r \in Ids(rides), lag \in {0, ClockLag} : AddMessage(r, lag, MaxStreamMsgs)
    \/ Snapshot

SpecChatBox == InitChatBox /\ [][NextChatBox]_vars

(***************************************************************************)
(* Properties.                                                             *)
(***************************************************************************)
IsSorted(docs) ==
    \A i, j \in DOMAIN docs : i < j => docs[i].createdAt <= docs[j].createdAt

\* The last n documents of docs.
LastN(docs, n) ==
    SubSeq(docs, IF Len(docs) > n THEN Len(docs) - n + 1 ELSE 1, Len(docs))

\* C1 (as claimed): a successful poll whose ride list still holds the selected ride
\* leaves selectedRideId unchanged.
C1_Stability ==
    [][(event' = "fetch_ok" /\ mounted
            /\ selectedRideId \in Ids(rides) /\ selectedRideId \in Ids(rides'))
        => selectedRideId' = selectedRideId]_vars

\* C2 (as claimed): a successful poll whose ride list does not hold the prior
\* selectedRideId leaves the first id of the new list selected, or no ride if the
\* new list is empty.
C2_Fallback ==
    [][(event' = "fetch_ok" /\ mounted /\ selectedRideId \notin Ids(rides'))
        => selectedRideId' = (IF rides' = <<>> THEN NoRide ELSE rides'[1])]_vars

\* C3 (as claimed): a selectedRideId that is present is the id of a ride of rides.
C3_SelectionValid == selectedRideId # NoRide => selectedRideId \in Ids(rides)

C5_WindowOfSelectedRide ==
    \A i \in DOMAIN messages : messages[i].ride = selectedRideId

\* C6 (as claimed): never two live subscriptions, and never none while
\* selectedRideId is present.
C6_ExactlyOneSubscription ==
    /\ subscriptions <= 1
    /\ selectedRideId # NoRide => subscriptions >= 1

\* C6 (amended): never two live subscriptions, and never none while the widget is
\* open and selectedRideId is present.
C6_OneSubscriptionWhileOpen ==
    /\ subscriptions <= 1
    /\ (mounted /\ isOpen /\ selectedRideId # NoRide) => subscriptions = 1

\* C6 witness: the selection was switched from the first ride to another one and
\* one subscription is live.
C6_Witness ==
    /\ event = "select"
    /\ rides # <<>>
    /\ selectedRideId \in Ids(rides)
    /\ selectedRideId # rides[1]
    /\ subscriptions = 1

\* C7 (as claimed): a window delivered from a history of more than 10 messages holds
\* the 10 messages of latest createdAt.
C7_NewestKept ==
    (event = "snapshot" /\ Len(store) > WindowLimit)
        => messages = LastN(orderBy(store), WindowLimit)

\* C8: the window never has more than 10 messages and its createdAt never decrease.
C8_WindowBoundedSorted ==
    /\ Len(messages) <= WindowLimit
    /\ IsSorted(messages)

\* C8 witness: a full window delivered from a longer history that did not arrive in
\* createdAt order.
C8_Witness ==
    /\ event = "snapshot"
    /\ Len(messages) = WindowLimit
    /\ Len(store) > WindowLimit
    /\ ~IsSorted(store)

\* C9: from a closed widget whose ride list is empty, or whose selectedRideId is not
\* in the ride list, no step opens the widget.
C9_NoOpenWithoutRides ==
    [][(mounted /\ ~isOpen /\ (rides = <<>> \/ selectedRideId \notin Ids(rides)))
        => ~isOpen']_vars

\* C9 witness: a logged-in actor has closed the widget after a poll emptied the ride
\* list.
C9_Witness ==
    /\ mounted
    /\ isLoggedIn
    /\ event = "toggle"
    /\ ~isOpen
    /\ rides = <<>>

\* C10: a failed fetch leaves rides as it was, and leaves the component mounted and
\* its timer live.
C10_FailedFetchKeepsRides ==
    [][event' \in FailureKinds
        => (rides' = rides /\ mounted' = mounted /\ timers' = timers)]_vars

\* C10 witness: a fetch failed while the actor had rides.
C10_Witness ==
    /\ event \in FailureKinds
    /\ mounted
    /\ timers # {}
    /\ rides # <<>>

\* A fetch has just been issued for the logged-in actor of the mounted component.
FetchIssued == event \in {"tick", "session", "mount"} /\ mounted /\ isLoggedIn

\* C11: after a failed fetch, a further fetch is eventually issued, unless the
\* actor logs out or the component is unmounted.
C11_PollingSurvivesFailure ==
    (event \in FailureKinds /\ mounted /\ isLoggedIn)
        ~> (FetchIssued \/ ~mounted \/ ~isLoggedIn)

\* C11 witness: the only fetch in flight of a logged-in actor has failed: the next
\* fetch can only come from the timer.
C11_Witness ==
    /\ event \in FailureKinds
    /\ mounted
    /\ isLoggedIn
    /\ inflight = 0
    /\ timers = {session}

\* C12: no step that leaves the session absent issues a fetch.
C12_NoFetchWhileUnauthenticated ==
    [][session' = NoSession => inflight' <= inflight]_vars

\* C12 witness: the actor logged out mid-session: the component holds rides and its
\* timer is live.
C12_Witness ==
    /\ event = "session"
    /\ mounted
    /\ session = NoSession
    /\ timers # {}
    /\ rides # <<>>

\* C13: a send, successful or failed, leaves the window unchanged, and the window
\* gets documents from the onSnapshot callback only.
C13_WindowFromSnapshotOnly ==
    [][/\ event' \in {"send", "send_failed"} => messages' = messages
       /\ (messages' # messages /\ messages' # <<>>) => event' = "snapshot"]_vars

\* C13 witness: a message was sent and is in the collection, and the window does not
\* show it yet.
C13_Witness ==
    /\ event = "send"
    /\ subscriptions = 1
    /\ store # <<>>
    /\ messages = <<>>

\* C15: the step that creates an interval timer for a logged-in actor issues a fetch
\* itself, so no tick comes before the first fetch.
C15_FetchBeforeFirstTick ==
    [][(timers' # timers /\ timers' # {} /\ session' # NoSession)
        => inflight' = inflight + 1]_vars

\* C15 witness: the component was mounted with a session and its fetch is in flight.
C15_Witness ==
    /\ event = "mount"
    /\ isLoggedIn
    /\ timers = {session}
    /\ inflight - dead = 1

\* C16 (as claimed): at most one fetch is in flight.
C16_SingleFlight == inflight <= 1

\* C17 (as claimed): the response of a fetch whose polling effect has been cleaned
\* up, or whose component has been unmounted, writes neither rides nor
\* selectedRideId.
C17_NoLateWrite ==
    [][(event' \in FailureKinds \cup {"fetch_ok"}
            /\ (orphans' < orphans \/ dead' < dead))
        => (rides' = rides /\ selectedRideId' = selectedRideId)]_vars

\* C18 (as claimed): after every successful fetch that completes while the component
\* is mounted, rides is the body of that fetch.
C18_LastCompletedWins ==
    [][\A data \in RideSets, who \in Issuers :
        (mounted /\ FetchResolve(data, who)) => rides' = data]_vars

\* C18 (amended): after every successful fetch issued by the mounted component,
\* rides is the body of that fetch, and only such a completion or the unmount
\* changes rides.
C18_LastDeliveredWins ==
    [][/\ \A data \in RideSets, who \in Issuers \ {"dead"} :
            FetchResolve(data, who) => rides' = data
       /\ rides' # rides
            => (event' = "unmount" \/ (event' = "fetch_ok" /\ dead' = dead))]_vars

\* C18 witness: a fetch completed while another one was in flight, and the rides of
\* before were replaced.
C18_Witness ==
    /\ event = "fetch_ok"
    /\ mounted
    /\ inflight - dead > 0
    /\ rides # <<>>

\* C19: a toggle flips isOpen and leaves rides, selectedRideId, the timer and the
\* fetches in flight as they were.
C19_ToggleFrame ==
    [][event' = "toggle"
        => /\ isOpen' = ~isOpen
           /\ rides' = rides
           /\ selectedRideId' = selectedRideId
           /\ timers' = timers
           /\ inflight' = inflight]_vars

\* C19 witness: the widget was closed and the timer of the logged-in actor is live.
C19_Witness ==
    /\ event = "toggle"
    /\ ~isOpen
    /\ isLoggedIn
    /\ timers = {session}
    /\ rides # <<>>

\* C20: at most one interval timer is live, it is the one of the current session,
\* and none is live while the component is unmounted.
C20_OneTimer ==
    /\ Cardinality(timers) <= 1
    /\ mounted => timers = {session}
    /\ ~mounted => timers = {}

\* C20 witness: the session changed under the mounted component, which had polled
\* before: the timer is the new session's.
C20_Witness ==
    /\ event = "session"
    /\ mounted
    /\ rides # <<>>
    /\ timers = {session}

(***************************************************************************)
(* C21: the subscription follows the widget's visibility.                  *)
(***************************************************************************)
\* C21: one subscription is live when the widget is open and selectedRideId is
\* present, and none when the widget is closed or selectedRideId is absent; so
\* every opening with a selection present ends with a subscription.
C21_SubscriptionFollowsVisibility ==
    /\ (isOpen /\ selectedRideId # NoRide) => subscriptions = 1
    /\ (~isOpen \/ selectedRideId = NoRide) => subscriptions = 0

\* C21 witness: the widget was opened with a selection present and a message in
\* the collection: ChatBox is mounted afresh, subscribed, its window still empty.
C21_Witness ==
    /\ event = "toggle"
    /\ isOpen
    /\ selectedRideId # NoRide
    /\ subscriptions = 1
    /\ store # <<>>
    /\ messages = <<>>

====
